---- MODULE Spec2Model ----
(***************************************************************************)
(* Model of manuscriptum's note merger, obsidianNotesToAST                 *)
(* (src/src/converters.ts).  The merger folds an ordered list of notes     *)
(* into one Markdown tree and one metadata record, counts words and        *)
(* collects notices for the user.                                          *)
(*                                                                         *)
(* Strings are sequences of one-character strings so that trim() and       *)
(* split(/\s+/) are computed rather than assumed.  An optional field that  *)
(* is undefined is a field absent from its record.  The Markdown parser    *)
(* (remark) is an external library: a note's content is identified with    *)
(* the mdast tree the parser returns for it.                               *)
(***************************************************************************)
EXTENDS Integers, Sequences, FiniteSets, TLC

VARIABLES notesInfo, metadata, origMetadata, tree, notices, i, pc,
          folderName, outFilename, folderNotes, values, completed,
          locale, rendered, plugin, sections, nextRef, calls,
          workspace, folderChildren, contents,
          settings, anonymize, shown, disk, writes, modal

mergeVars == <<notesInfo, metadata, origMetadata, tree, notices, i>>

filenameVars == <<folderName, outFilename>>

saveVars == <<folderNotes, values, completed>>

storyVars == <<locale, rendered>>

frontVars == <<plugin, sections, nextRef, calls>>

sortVars == <<workspace, folderChildren, contents>>

exportVars == <<settings, anonymize, shown, disk, writes, modal>>

restVars == <<storyVars, frontVars, sortVars, exportVars>>

vars == <<mergeVars, pc, filenameVars, saveVars, restVars>>

----------------------------------------------------------------------------
(* Bounds of the model. *)

MaxNotes == 3
MaxPropNotes == 2
MaxProps == 2
MaxSeedCount == 5
MaxTextLen == 3
MaxNameTokens == 5
MaxFiles == 3
MaxWordcount == 1600
MaxCalls == 3
MaxChildren == 3
MaxExportNotes == 2

----------------------------------------------------------------------------
(* Strings. *)

Whitespace == {" ", "\t", "\n"}

RECURSIVE TrimStart(_)
TrimStart(s) ==
    IF s # <<>> /\ Head(s) \in Whitespace THEN TrimStart(Tail(s)) ELSE s

RECURSIVE TrimEnd(_)
TrimEnd(s) ==
    IF s # <<>> /\ s[Len(s)] \in Whitespace
    THEN TrimEnd(SubSeq(s, 1, Len(s) - 1))
    ELSE s

Trim(s) == TrimEnd(TrimStart(s))

(* String.prototype.split(/\s+/): the pieces between maximal runs of       *)
(* whitespace; a run at either end leaves an empty piece there, and the    *)
(* empty string splits into one empty piece.                               *)
RECURSIVE SplitFrom(_, _, _, _)
SplitFrom(s, j, cur, acc) ==
    IF j > Len(s) THEN Append(acc, cur)
    ELSE IF s[j] \in Whitespace
         THEN IF j > 1 /\ s[j - 1] \in Whitespace
              THEN SplitFrom(s, j + 1, cur, acc)
              ELSE SplitFrom(s, j + 1, <<>>, Append(acc, cur))
         ELSE SplitFrom(s, j + 1, Append(cur, s[j]), acc)

SplitWhitespace(s) == SplitFrom(s, 1, <<>>, <<>>)

RECURSIVE Concat(_)
Concat(seqs) == IF seqs = <<>> THEN <<>> ELSE Head(seqs) \o Concat(Tail(seqs))

(* Array.prototype.filter(Boolean) on strings: drops the empty ones. *)
FilterBoolean(pieces) == SelectSeq(pieces, LAMBDA p : p # <<>>)

----------------------------------------------------------------------------
(* mdast nodes. *)

Node(t, v, c) == [type |-> t, value |-> v, children |-> c]

Text(v) == Node("text", v, <<>>)
Emphasis(c) == Node("emphasis", <<>>, c)
Paragraph(c) == Node("paragraph", <<>>, c)
Yaml(v) == Node("yaml", v, <<>>)
ThematicBreak == Node("thematicBreak", <<>>, <<>>)
Root(c) == Node("root", <<>>, c)

Undefined == [type |-> "undefined"]

RECURSIVE SumSeq(_)
SumSeq(s) == IF s = <<>> THEN 0 ELSE Head(s) + SumSeq(Tail(s))

(* The visitor of line 134: the words of one text node. *)
WordsInTextUnfiltered(node) == Len(SplitWhitespace(Trim(node.value)))

WordsInText(node) == Len(FilterBoolean(SplitWhitespace(Trim(node.value))))

(* visit(subTree, "text", ...): every text node at any depth, the root     *)
(* included, adds its words to count.                                      *)
RECURSIVE CountWords(_)
CountWords(node) ==
    (IF node.type = "text" THEN WordsInText(node) ELSE 0)
    + SumSeq([j \in 1..Len(node.children) |-> CountWords(node.children[j])])

FilterYamlKeepAll(children) == children

FilterYaml(children) == SelectSeq(children, LAMBDA node : node.type # "yaml")

----------------------------------------------------------------------------
(* ManuscriptMetadata and NoteInformation. *)

OverrideKeysWithWordcount ==
    <<"title", "filename", "outdir", "author", "surname", "contact", "wordcount">>

OverrideKeysContactFirst ==
    <<"contact", "title", "filename", "outdir", "author", "surname">>

(* The keys a note's properties may overwrite, in the order of the loop. *)
OverrideKeys == <<"title", "filename", "outdir", "author", "surname", "contact">>

Has(record, k) == k \in DOMAIN record

(* metadata[k] !== origMetadata[k], where an absent field is undefined. *)
DiffersWrittenValue(md, orig, k, val) == ~Has(orig, k) \/ val # orig[k]

DiffersAlways(md, orig, k, val) == TRUE

Differs(md, orig, k, val) ==
    \/ Has(md, k) # Has(orig, k)
    \/ Has(md, k) /\ Has(orig, k) /\ md[k] # orig[k]

(* { ...metadata } *)
Copy(md) == md

SetFieldIfUnset(md, k, val) ==
    IF Has(md, k) THEN md
    ELSE [f \in DOMAIN md \cup {k} |-> IF f = k THEN val ELSE md[f]]

(* metadata[k] = val *)
SetField(md, k, val) ==
    [f \in DOMAIN md \cup {k} |-> IF f = k THEN val ELSE md[f]]

WritePropIfUnset(md, k, val) == SetFieldIfUnset(md, k, val)

(* Line 115. *)
WriteProp(md, k, val) == SetField(md, k, val)

HasFrontmatter(info) == Has(info, "frontmatter")

(* info.frontmatter[k] !== undefined; a property bag lists its keys once,  *)
(* in insertion order.                                                     *)
Defines(info, k) ==
    /\ HasFrontmatter(info)
    /\ \E j \in 1..Len(info.frontmatter) : info.frontmatter[j][1] = k

ValueOf(info, k) ==
    info.frontmatter[CHOOSE j \in 1..Len(info.frontmatter) :
                         info.frontmatter[j][1] = k][2]

(* The directories of the file system, as fs.existsSync sees them. *)
ExistingDirs == {<<"s">>, <<"a">>}

existsSync(path) == path \in ExistingDirs

NonExistentNoticeRejectedAsPrevious(name, val, outdir) ==
    [kind |-> "non-existent directory", note |-> name, val |-> val,
     previous |-> val]

(* The two notices of the merger; the message text is fixed by its kind. *)
NonExistentNotice(name, val, outdir) ==
    [kind |-> "non-existent directory", note |-> name, val |-> val,
     previous |-> outdir]

RedefinedNotice(name, redefinedProps) ==
    [kind |-> "re-defined", note |-> name, props |-> redefinedProps]

RejectsOutdirNever(k, val) == FALSE

(* Line 109: k === "outdir" && !existsSync(val) *)
RejectsOutdir(k, val) == k = "outdir" /\ ~existsSync(val)

(* One pass of the loop over the keys (lines 102-117). *)
PropStep(info, orig, k, acc) ==
    IF ~Defines(info, k) THEN acc
    ELSE LET val == ValueOf(info, k)
             redefinedProps ==
                 IF Differs(acc.metadata, orig, k, val)
                 THEN Append(acc.redefinedProps, k)
                 ELSE acc.redefinedProps
         IN  IF RejectsOutdir(k, val)
             THEN [metadata |-> acc.metadata,
                   redefinedProps |-> redefinedProps,
                   notices |-> Append(acc.notices,
                       NonExistentNotice(info.name, val, acc.metadata.outdir))]
             ELSE [metadata |-> WriteProp(acc.metadata, k, val),
                   redefinedProps |-> redefinedProps,
                   notices |-> acc.notices]

RECURSIVE PropLoop(_, _, _, _)
PropLoop(info, orig, j, acc) ==
    IF j > Len(OverrideKeys) THEN acc
    ELSE PropLoop(info, orig, j + 1, PropStep(info, orig, OverrideKeys[j], acc))

(* Lines 90-125: a note's properties overwrite the metadata. *)
ApplyFrontmatter(info, orig, md, ns) ==
    IF ~HasFrontmatter(info) THEN [metadata |-> md, notices |-> ns]
    ELSE LET r == PropLoop(info, orig, 1,
                      [metadata |-> md, redefinedProps |-> <<>>,
                       notices |-> ns])
         IN  [metadata |-> r.metadata,
              notices |-> IF Len(r.redefinedProps) # 0
                          THEN Append(r.notices,
                                   RedefinedNotice(info.name, r.redefinedProps))
                          ELSE r.notices]

(* pipeline.parse(info.content) *)
Parse(content) == Root(content)

AddCountOverwrite(md, count) == SetField(md, "wordcount", count)

(* metadata.wordcount += count *)
AddCount(md, count) == SetField(md, "wordcount", md.wordcount + count)

MergeTreePrepend(t, subTree) ==
    IF t.type = "undefined" THEN subTree
    ELSE [t EXCEPT !.children = subTree.children \o <<ThematicBreak>> \o @]

MergeTreeBreakFirst(t, subTree) ==
    IF t.type = "undefined"
    THEN [subTree EXCEPT !.children = <<ThematicBreak>> \o @]
    ELSE [t EXCEPT !.children = @ \o <<ThematicBreak>> \o subTree.children]

MergeTreeSkipEmpty(t, subTree) ==
    IF t.type = "undefined" THEN subTree
    ELSE IF subTree.children = <<>> THEN t
    ELSE [t EXCEPT !.children = @ \o <<ThematicBreak>> \o subTree.children]

(* Lines 142-146. *)
MergeTree(t, subTree) ==
    IF t.type = "undefined" THEN subTree
    ELSE [t EXCEPT !.children = @ \o <<ThematicBreak>> \o subTree.children]

(* The body of the loop over the notes (lines 88-147). *)
NoteStep(st, info) ==
    LET fm == ApplyFrontmatter(info, st.origMetadata, st.metadata, st.notices)
        subTree == Parse(info.content)
        count == CountWords(subTree)
        filtered == [subTree EXCEPT !.children = FilterYaml(@)]
    IN  [metadata |-> AddCount(fm.metadata, count),
         origMetadata |-> st.origMetadata,
         tree |-> MergeTree(st.tree, filtered),
         notices |-> fm.notices]

ResetWordcountIfUnset(md) == SetFieldIfUnset(md, "wordcount", 0)

(* metadata.wordcount = 0 *)
ResetWordcount(md) == SetField(md, "wordcount", 0)

TreeAtEntryEmptyRoot == Root(<<>>)

(* let tree; *)
TreeAtEntry == Undefined

(* Lines 82-87: the state of the call before the first note. *)
EntryState(md) ==
    [metadata |-> ResetWordcount(md),
     origMetadata |-> Copy(md),
     tree |-> TreeAtEntry,
     notices |-> <<>>]

(* The whole call, on a list of notes and a seed metadata. *)
RECURSIVE FoldNotes(_, _)
FoldNotes(st, notes) ==
    IF notes = <<>> THEN st
    ELSE FoldNotes(NoteStep(st, Head(notes)), Tail(notes))

obsidianNotesToAST(notes, md) == FoldNotes(EntryState(md), notes)

----------------------------------------------------------------------------
(* folderNameToDocxOutfileName (src/src/obsidianComponents.ts). *)

UpperCaseLetters ==
    <<"A", "B", "C", "D", "E", "F", "G", "H", "I", "J", "K", "L", "M",
      "N", "O", "P", "Q", "R", "S", "T", "U", "V", "W", "X", "Y", "Z">>

LowerCaseLetters ==
    <<"a", "b", "c", "d", "e", "f", "g", "h", "i", "j", "k", "l", "m",
      "n", "o", "p", "q", "r", "s", "t", "u", "v", "w", "x", "y", "z">>

(* toLocaleLowerCase() *)
ToLowerCase(s) ==
    [x \in 1..Len(s) |->
        IF \E l \in 1..Len(UpperCaseLetters) : UpperCaseLetters[l] = s[x]
        THEN LowerCaseLetters[CHOOSE l \in 1..Len(UpperCaseLetters) :
                                  UpperCaseLetters[l] = s[x]]
        ELSE s[x]]

(* The character class of line 79. *)
ForbiddenChars == {"<", ">", ":", "\"", "/", "\\", "|", "?", "*"}

ReplaceForbiddenBySpace(s) ==
    [x \in 1..Len(s) |-> IF s[x] \in ForbiddenChars THEN " " ELSE s[x]]

(* replace(/[<>:"/\\|?*]/g, "") *)
StripForbidden(s) == SelectSeq(s, LAMBDA c : c \notin ForbiddenChars)

(* Lines 77-80. *)
FilenamePieces(name) == SplitWhitespace(StripForbidden(ToLowerCase(name)))

MaxFilenameLength == 32

AfterPieceNoDash(accumulation) == accumulation

(* ++accumulation: the dash that follows a kept piece. *)
AfterPiece(accumulation) == accumulation + 1

(* The loop of lines 83-89, endIndex counting the pieces kept so far. *)
RECURSIVE EndIndexFrom(_, _, _)
EndIndexFrom(pieces, endIndex, accumulation) ==
    IF endIndex >= Len(pieces) THEN endIndex
    ELSE LET grown == accumulation + Len(pieces[endIndex + 1])
         IN  IF grown > MaxFilenameLength THEN endIndex
             ELSE EndIndexFrom(pieces, endIndex + 1, AfterPiece(grown))

(* Lines 81-90. *)
EndIndex(pieces) ==
    LET endIndex == EndIndexFrom(pieces, 0, 0)
    IN  IF endIndex = 0 THEN 1 ELSE endIndex

(* Array.prototype.join *)
RECURSIVE Join(_, _)
Join(pieces, separator) ==
    IF pieces = <<>> THEN <<>>
    ELSE IF Len(pieces) = 1 THEN pieces[1]
    ELSE pieces[1] \o separator \o Join(Tail(pieces), separator)

DocxExtension == <<".", "d", "o", "c", "x">>

folderNameToDocxOutfileName(name) ==
    LET outFilenamePieces == FilenamePieces(name)
    IN  Join(SubSeq(outFilenamePieces, 1, EndIndex(outFilenamePieces)), <<"-">>)
        \o DocxExtension

----------------------------------------------------------------------------
(* The inputs of the model. *)

(* Parsed note contents: nothing; one paragraph; front matter before a    *)
(* paragraph with nested emphasis and a whitespace-only text node; a note  *)
(* with a thematic break of its own and an empty text node; front matter   *)
(* alone.                                                                  *)
Contents ==
    { <<>>,
      <<Paragraph(<<Text(<<"a", " ", "b">>)>>)>>,
      <<Yaml(<<"t", " ", "x">>),
        Paragraph(<<Text(<<" ", "a", " ">>),
                    Emphasis(<<Text(<<"b", " ", "\t", "c">>)>>),
                    Text(<<" ", " ">>)>>)>>,
      <<Paragraph(<<Text(<<"a">>)>>), ThematicBreak, Paragraph(<<Text(<<>>)>>)>>,
      <<Yaml(<<"t">>)>> }

PlainContent == <<Paragraph(<<Text(<<"a", " ", "b">>)>>)>>

(* The j-th note of a folder is named n, nn, nnn, ... *)
NoteName(j) == [c \in 1..j |-> "n"]

PropKeyOrder == <<"title", "outdir", "contact">>

PropKeys == {PropKeyOrder[x] : x \in 1..Len(PropKeyOrder)}

(* Values equal to the seed's, different from it, blank; a directory that  *)
(* exists and one that does not.                                           *)
PropValues(k) ==
    IF k = "title" THEN {<<"s">>, <<"a">>, <<" ">>}
    ELSE IF k = "outdir" THEN {<<"a">>, <<"n">>}
    ELSE {<<"a">>}

PropPairs == UNION {{<<k, v>> : v \in PropValues(k)} : k \in PropKeys}

PropKeyPosition(k) == CHOOSE x \in 1..Len(PropKeyOrder) : PropKeyOrder[x] = k

Reverse(b) == [x \in 1..Len(b) |-> b[Len(b) + 1 - x]]

(* Property bags: up to MaxProps properties with distinct keys, inserted   *)
(* in the order of PropKeyOrder or in the reverse order.                   *)
Bags ==
    LET forward ==
            UNION {{b \in [1..n -> PropPairs] :
                       \A x, y \in 1..n :
                           x < y => PropKeyPosition(b[x][1]) < PropKeyPosition(b[y][1])} :
                   n \in 0..MaxProps}
    IN  forward \cup {Reverse(b) : b \in forward}

Frontmatters == {<<FALSE, <<>>>>} \cup {<<TRUE, b>> : b \in Bags}

NoteOf(j, content, fm) ==
    IF fm[1]
    THEN [name |-> NoteName(j), content |-> content, frontmatter |-> fm[2]]
    ELSE [name |-> NoteName(j), content |-> content]

(* Properties that are no override key, next to one that is; a wordcount  *)
(* property is a number, as YAML reads it.                                 *)
ExtraPairs ==
    <<<<"irrelevant", <<"a">>>>, <<"wordcount", 7>>, <<"title", <<"a">>>>>>

(* Bags of up to MaxProps of them, in the order of ExtraPairs. *)
ExtraBags ==
    {b \in UNION {[1..n -> 1..Len(ExtraPairs)] : n \in 0..MaxProps} :
        \A x, y \in 1..Len(b) : x < y => b[x] < b[y]}

ExtraFrontmatters ==
    {<<FALSE, <<>>>>} \cup
    {<<TRUE, [x \in 1..Len(b) |-> ExtraPairs[b[x]]]>> : b \in ExtraBags}

ExtraContents ==
    { <<Paragraph(<<Text(<<"a", " ", "b">>)>>)>>,
      <<Yaml(<<"t">>), Paragraph(<<Text(<<"a">>)>>)>> }

(* Text values: every string of up to MaxTextLen letters, blanks and tabs. *)
TextChars == {"a", " ", "\t"}

Texts == UNION {[1..n -> TextChars] : n \in 0..MaxTextLen}

Html(v) == Node("html", v, <<>>)

(* A note whose front matter, html node, text node and nested text node    *)
(* carry the given values.                                                 *)
TextContent(v, w) ==
    <<Yaml(v), Paragraph(<<Text(v), Emphasis(<<Text(w)>>)>>), Html(v),
      ThematicBreak>>

(* Folder names: up to MaxNameTokens of an upper-case letter, a           *)
(* lower-case letter, a space, a forbidden character, a word of 10 and a   *)
(* word of 30 letters.                                                     *)
NameTokens ==
    { <<"A">>, <<"b">>, <<" ">>, <<"<">>,
      [x \in 1..10 |-> "c"], [x \in 1..30 |-> "D"] }

FolderNames ==
    {Concat(ts) : ts \in UNION {[1..n -> NameTokens] : n \in 0..MaxNameTokens}}

(* The metadata of the tests: no author, surname or contact. *)
SeedMetadata ==
    [title |-> <<"s">>, filename |-> <<"s">>, outdir |-> <<"s">>]

SeedMetadatas ==
    {SeedMetadata} \cup
    {SetField(SeedMetadata, "wordcount", n) : n \in {0, MaxSeedCount}}

----------------------------------------------------------------------------
(* The call as a state machine: one step per pass of the loop over notes.  *)

NoFilename == folderName = <<>> /\ outFilename = <<>>

(* The plugin's settings. *)
Settings ==
    [authorName |-> <<"a", "u">>, authorSurname |-> <<"s", "u">>,
     authorContactInformation |-> <<"c", "o">>, outputDir |-> <<" ", "s">>]

NoSave == folderNotes = <<>> /\ values = <<>> /\ completed = <<>>

(* storyMdToDocx has not been called. *)
NotRendered == [called |-> FALSE]

NoStory == locale = "," /\ rendered = NotRendered

(* No front matter plugin has been made. *)
NoPlugin == [made |-> FALSE]

NoFront == plugin = NoPlugin /\ sections = <<>> /\ nextRef = 0 /\ calls = 0

(* The File Explorer view is missing from the workspace. *)
NoView == [view |-> FALSE]

NoSort == workspace = NoView /\ folderChildren = <<>> /\ contents = <<>>

(* No confirm modal has been made. *)
NoModal ==
    [made |-> FALSE, open |-> FALSE, path |-> <<>>, closes |-> 0, yes |-> 0, no |-> 0]

NoUi == shown = <<>> /\ disk = {} /\ writes = <<>> /\ modal = NoModal

NoExport == settings = Settings /\ anonymize = FALSE /\ NoUi

NoRest == NoStory /\ NoFront /\ NoSort /\ NoExport

InitCall ==
    /\ NoFilename
    /\ NoSave
    /\ NoRest
    /\ origMetadata = metadata
    /\ tree = Undefined
    /\ notices = <<>>
    /\ i = 1
    /\ pc = "call"

(* Notes without properties, contents and seed word count vary. *)
InitContent ==
    /\ \E n \in 0..MaxNotes : \E cs \in [1..n -> Contents] :
           notesInfo = [j \in 1..n |-> NoteOf(j, cs[j], <<FALSE, <<>>>>)]
    /\ metadata \in SeedMetadatas
    /\ InitCall

(* Notes with property bags, one content. *)
InitProps ==
    /\ \E n \in 0..MaxPropNotes : \E fs \in [1..n -> Frontmatters] :
           notesInfo = [j \in 1..n |-> NoteOf(j, PlainContent, fs[j])]
    /\ metadata = SeedMetadata
    /\ InitCall

(* Notes with properties outside the override keys. *)
InitExtra ==
    /\ \E n \in 0..MaxPropNotes :
           \E fs \in [1..n -> ExtraFrontmatters] : \E cs \in [1..n -> ExtraContents] :
               notesInfo = [j \in 1..n |-> NoteOf(j, cs[j], fs[j])]
    /\ metadata \in SeedMetadatas
    /\ InitCall

(* One note, its text values vary. *)
InitText ==
    /\ \E v, w \in Texts : notesInfo = <<NoteOf(1, TextContent(v, w), <<FALSE, <<>>>>)>>
    /\ metadata = SeedMetadata
    /\ InitCall

(* Lines 78-87. *)
Enter ==
    /\ pc = "call"
    /\ LET st == EntryState(metadata)
       IN  /\ metadata' = st.metadata
           /\ origMetadata' = st.origMetadata
           /\ tree' = st.tree
           /\ notices' = st.notices
    /\ i' = 1
    /\ pc' = "loop"
    /\ UNCHANGED <<notesInfo, filenameVars, saveVars, restVars>>

(* Lines 88-147, for the next note. *)
ProcessNote ==
    /\ pc = "loop"
    /\ i <= Len(notesInfo)
    /\ LET st == NoteStep([metadata |-> metadata,
                           origMetadata |-> origMetadata,
                           tree |-> tree, notices |-> notices],
                          notesInfo[i])
       IN  /\ metadata' = st.metadata
           /\ tree' = st.tree
           /\ notices' = st.notices
    /\ i' = i + 1
    /\ UNCHANGED <<notesInfo, origMetadata, pc, filenameVars, saveVars, restVars>>

(* Line 149. *)
Return ==
    /\ pc = "loop"
    /\ i > Len(notesInfo)
    /\ pc' = "done"
    /\ UNCHANGED <<mergeVars, filenameVars, saveVars, restVars>>

Next == Enter \/ ProcessNote \/ Return

SpecContent == InitContent /\ [][Next]_vars

SpecProps == InitProps /\ [][Next]_vars

SpecExtra == InitExtra /\ [][Next]_vars

SpecText == InitText /\ [][Next]_vars

----------------------------------------------------------------------------
(* folderNameToDocxOutfileName applied to a folder name. *)

InitFilename ==
    /\ folderName \in FolderNames
    /\ outFilename = <<>>
    /\ notesInfo = <<>>
    /\ metadata = SeedMetadata
    /\ origMetadata = SeedMetadata
    /\ tree = Undefined
    /\ notices = <<>>
    /\ i = 1
    /\ NoSave
    /\ NoRest
    /\ pc = "name"

ToOutfileName ==
    /\ pc = "name"
    /\ outFilename' = folderNameToDocxOutfileName(folderName)
    /\ pc' = "named"
    /\ UNCHANGED <<mergeVars, folderName, saveVars, restVars>>

NextFilename == ToOutfileName

SpecFilename == InitFilename /\ [][NextFilename]_vars

----------------------------------------------------------------------------
(* saveAsManuscript (src/src/main.ts) up to the merge: the notes of the    *)
(* folder are read concurrently and handed to obsidianNotesToAST.          *)

(* Lines 196-203. *)
SaveMetadata(folder) ==
    [title |-> folder,
     filename |-> folderNameToDocxOutfileName(folder),
     outdir |-> Trim(settings.outputDir),
     author |-> Trim(settings.authorName),
     surname |-> Trim(settings.authorSurname),
     contact |-> Trim(settings.authorContactInformation)]

(* The Markdown files of the folder as sortChildrenInFileExplorerOrder and *)
(* the filter of lines 205-208 leave them: the j-th has its name, its text *)
(* in the vault and, in the metadata cache, maybe a front matter.          *)
FileFrontmatters == {<<FALSE, <<>>>>, <<TRUE, <<<<"title", <<"a">>>>>>>>}

FileOf(j, data, fm) ==
    IF fm[1]
    THEN [name |-> NoteName(j), data |-> data, frontmatter |-> fm[2]]
    ELSE [name |-> NoteName(j), data |-> data]

(* Lines 212-219: the NoteInformation of a file once its read is done. *)
ReadNote(n) ==
    IF Has(n, "frontmatter")
    THEN [name |-> n.name, content |-> n.data, frontmatter |-> n.frontmatter]
    ELSE [name |-> n.name, content |-> n.data]

(* The reads that have not completed. *)
Pending == {j \in 1..Len(folderNotes) : \A x \in 1..Len(completed) : completed[x] # j}

StoreInCompletionOrder(vals, j, info) ==
    [x \in DOMAIN vals \cup {Cardinality(DOMAIN vals) + 1} |->
        IF x = Cardinality(DOMAIN vals) + 1 THEN info ELSE vals[x]]

(* Promise.all keeps the value of the j-th promise at index j. *)
Store(vals, j, info) ==
    [x \in DOMAIN vals \cup {j} |-> IF x = j THEN info ELSE vals[x]]

InitSave ==
    /\ \E n \in 0..MaxFiles :
           \E cs \in [1..n -> ExtraContents] : \E fs \in [1..n -> FileFrontmatters] :
               folderNotes = [j \in 1..n |-> FileOf(j, cs[j], fs[j])]
    /\ values = <<>>
    /\ completed = <<>>
    /\ folderName = <<"S">>
    /\ outFilename = <<>>
    /\ notesInfo = <<>>
    /\ metadata = SeedMetadata
    /\ origMetadata = SeedMetadata
    /\ tree = Undefined
    /\ notices = <<>>
    /\ i = 1
    /\ NoRest
    /\ pc = "save"

(* Lines 196-219, up to the awaits: the metadata is built and every read   *)
(* is started.                                                             *)
StartReads ==
    /\ pc = "save"
    /\ metadata' = SaveMetadata(folderName)
    /\ origMetadata' = SaveMetadata(folderName)
    /\ values' = <<>>
    /\ completed' = <<>>
    /\ pc' = "reading"
    /\ UNCHANGED <<notesInfo, tree, notices, i, filenameVars, folderNotes, restVars>>

(* vault.cachedRead(n) resolves for one of the notes, in any order. *)
CompleteRead ==
    /\ pc = "reading"
    /\ \E j \in Pending :
           /\ values' = Store(values, j, ReadNote(folderNotes[j]))
           /\ completed' = Append(completed, j)
    /\ UNCHANGED <<mergeVars, pc, filenameVars, folderNotes, restVars>>

(* vault.cachedRead(n) rejects: Promise.all rejects and so does the save. *)
FailRead ==
    /\ pc = "reading"
    /\ Pending # {}
    /\ pc' = "rejected"
    /\ UNCHANGED <<mergeVars, filenameVars, saveVars, restVars>>

(* Lines 211 and 222: Promise.all resolves once every read has, and the    *)
(* merge is called with its array.                                         *)
AllRead ==
    /\ pc = "reading"
    /\ Pending = {}
    /\ notesInfo' = [j \in 1..Len(folderNotes) |-> values[j]]
    /\ pc' = "call"
    /\ UNCHANGED <<metadata, origMetadata, tree, notices, i, filenameVars, saveVars, restVars>>

NextSave ==
    StartReads \/ CompleteRead \/ FailRead \/ AllRead \/ Enter \/ ProcessNote \/ Return

SpecSave == InitSave /\ [][NextSave]_vars

----------------------------------------------------------------------------
(* storyMdToDocx (src/src/main.ts, lines 312-390), up to the call of the   *)
(* renderer: the word-count description, the page header and the           *)
(* arguments of the front matter plugin.                                   *)

Digits == <<"0", "1", "2", "3", "4", "5", "6", "7", "8", "9">>

RECURSIVE DigitsOf(_)
DigitsOf(n) ==
    IF n < 10 THEN <<Digits[n + 1]>>
    ELSE Append(DigitsOf(n \div 10), Digits[(n % 10) + 1])

RECURSIVE GroupDigits(_, _)
GroupDigits(d, sep) ==
    IF Len(d) <= 3 THEN d
    ELSE GroupDigits(SubSeq(d, 1, Len(d) - 3), sep)
             \o <<sep>> \o SubSeq(d, Len(d) - 2, Len(d))

(* The grouping separator of the locale the program runs in. *)
Locales == {",", "."}

(* Number.prototype.toLocaleString() of a non-negative integer. *)
ToLocaleString(n, sep) == GroupDigits(DigitsOf(n), sep)

MathTrunc(num, den) == num \div den

(* Math.round(num / den) for num >= 0: halves round up. *)
MathRound(num, den) == (2 * num + den) \div (2 * den)

ExactBelow == 1000

RoundingUnit == 100

(* Lines 314-321. *)
WordcountDesc(md, loc) ==
    IF ~Has(md, "wordcount") \/ md.wordcount = 0 THEN <<>>
    ELSE IF md.wordcount < ExactBelow
    THEN ToLocaleString(md.wordcount, loc) \o <<" ", "w", "o", "r", "d", "s">>
    ELSE <<"a", "b", "o", "u", "t", " ">>
             \o ToLocaleString(MathRound(md.wordcount, RoundingUnit) * RoundingUnit, loc)
             \o <<" ", "w", "o", "r", "d", "s">>

Slash == <<" ", "/", " ">>

(* Lines 359-361: the conditional takes the whole of                       *)
(* "" + `${metadata.title} / ` as its else branch.                         *)
HeaderText(md) ==
    IF Has(md, "surname") THEN md.surname \o Slash
    ELSE <<>> \o (md.title \o Slash)

(* Lines 357-364: the children of the header's text run. *)
Header(md) == [text |-> HeaderText(md), pageNumber |-> "CURRENT"]

(* Lines 374-379: addFrontMatterPlugin(title, wordcountDesc, author,       *)
(* contact); an undefined argument is an absent field.                     *)
FrontMatterArgs(md, desc) ==
    LET base == [title |-> md.title, wordCountDesc |-> desc]
        withAuthor == IF Has(md, "author")
                      THEN SetField(base, "author", md.author) ELSE base
    IN  IF Has(md, "contact")
        THEN SetField(withAuthor, "contactInfo", md.contact) ELSE withAuthor

(* What the renderer (toDocx) is called with. *)
storyMdToDocx(t, md, loc) ==
    [called |-> TRUE,
     tree |-> t,
     metadata |-> md,
     title |-> md.title,
     header |-> Header(md),
     frontMatter |-> FrontMatterArgs(md, WordcountDesc(md, loc))]

StoryTitle == <<"T">>

StoryMetadatas ==
    {md \in
        UNION {[ks -> {<<>>}] :
                  ks \in {{"title"} \cup opt :
                             opt \in SUBSET {"wordcount", "surname", "author", "contact"}}} :
        ("author" \in DOMAIN md) = ("contact" \in DOMAIN md)}

StoryValue(k, w) ==
    IF k = "title" THEN StoryTitle
    ELSE IF k = "wordcount" THEN w
    ELSE IF k = "surname" THEN <<"s", "u">>
    ELSE IF k = "author" THEN <<"a", "u">>
    ELSE <<"c", "\n", "o">>

InitStory ==
    /\ \E shape \in StoryMetadatas : \E w \in 0..MaxWordcount :
           metadata = [k \in DOMAIN shape |-> StoryValue(k, w)]
    /\ tree = Root(PlainContent)
    /\ locale \in Locales
    /\ rendered = NotRendered
    /\ origMetadata = metadata
    /\ notesInfo = <<>>
    /\ notices = <<>>
    /\ i = 1
    /\ NoFilename
    /\ NoSave
    /\ NoFront
    /\ NoSort
    /\ NoExport
    /\ pc = "story"

(* Lines 312-388: the call, up to the await of toDocx. *)
StoryMdToDocx ==
    /\ pc = "story"
    /\ rendered' = storyMdToDocx(tree, metadata, locale)
    /\ pc' = "rendering"
    /\ UNCHANGED <<mergeVars, filenameVars, saveVars, locale, frontVars, sortVars,
                   exportVars>>

NextStory == StoryMdToDocx

SpecStory == InitStory /\ [][NextStory]_vars

----------------------------------------------------------------------------
(* addFrontMatterPlugin (src/src/docxPlugins.ts, lines 65-194).  A docx    *)
(* object is a record of its constructor's arguments and of its identity   *)
(* (ref): two objects made by two calls of new are never the same object.  *)

SingleLine == 240

DoubleLine == 480

(* Lines 75-80. *)
singleSpaced == [before |-> 0, after |-> 0, line |-> SingleLine, lineRule |-> "AUTO"]

(* Lines 81-86. *)
doubleSpaced == [before |-> 0, after |-> 0, line |-> DoubleLine, lineRule |-> "AUTO"]

(* new docx.Paragraph({text, alignment, spacing}) *)
DocxParagraph(ref, text, alignment, spacing) ==
    [ref |-> ref, kind |-> "Paragraph", text |-> text, alignment |-> alignment,
     spacing |-> spacing, runs |-> <<>>, hasRuns |-> FALSE, desc |-> <<>>]

(* String.prototype.split("\n") *)
RECURSIVE SplitLinesFrom(_, _, _, _)
SplitLinesFrom(s, j, cur, acc) ==
    IF j > Len(s) THEN Append(acc, cur)
    ELSE IF s[j] = "\n" THEN SplitLinesFrom(s, j + 1, <<>>, Append(acc, cur))
    ELSE SplitLinesFrom(s, j + 1, Append(cur, s[j]), acc)

SplitLines(s) == SplitLinesFrom(s, 1, <<>>, <<>>)

(* Lines 105-114: one text run per line of the contact information, each   *)
(* after the first on a new line.                                          *)
ContactInfoElems(contactInfo) ==
    LET lines == SplitLines(contactInfo)
    IN  [ndx \in 1..Len(lines) |->
            [text |-> lines[ndx], break |-> IF ndx = 1 THEN 0 ELSE 1]]

(* Lines 134-172: the heading table, contact information in the left cell  *)
(* and the word count in the right one.                                    *)
HeadingTable(ref, args) ==
    [ref |-> ref, kind |-> "Table", text |-> <<>>, alignment |-> "left",
     spacing |-> singleSpaced,
     runs |-> IF Has(args, "contactInfo")
              THEN ContactInfoElems(args.contactInfo) ELSE <<>>,
     hasRuns |-> Has(args, "contactInfo"),
     desc |-> args.wordCountDesc]

(* Lines 87-90. *)
BlankPara(ref) == DocxParagraph(ref, <<>>, "left", singleSpaced)

BlankCount == 10

(* Lines 115-130. *)
TitleAndAuthor(ref, args) ==
    <<DocxParagraph(ref, args.title, "center", doubleSpaced)>>
        \o (IF Has(args, "author")
            THEN <<DocxParagraph(ref + 1, <<"b", "y", " ">> \o args.author,
                                 "center", doubleSpaced)>>
            ELSE <<>>)

AlreadyAddedFirstChild(children, blankPara) ==
    Len(children) >= 1 /\ children[1].ref = blankPara.ref

(* Line 101: sections[0].children[1] === blankPara, an identity test on    *)
(* the second child.                                                       *)
AlreadyAdded(children, blankPara) ==
    Len(children) >= 2 /\ children[2].ref = blankPara.ref

(* Lines 132-191: the new children of the first section; the objects made  *)
(* take the refs from ref on.                                              *)
WithFrontMatter(children, p, ref) ==
    <<HeadingTable(ref, p.args)>>
        \o [b \in 1..BlankCount |-> p.blankPara]
        \o TitleAndAuthor(ref + 1, p.args)
        \o <<DocxParagraph(ref + 3, <<>>, "left", doubleSpaced)>>
        \o children

(* Lines 93-192. *)
postprocess(p, secs, ref) ==
    IF Len(secs) = 0 THEN secs
    ELSE IF AlreadyAdded(secs[1].children, p.blankPara) THEN secs
    ELSE [secs EXCEPT ![1].children = WithFrontMatter(@, p, ref)]

(* The arguments a plugin is made with. *)
PluginArgs ==
    LET base == {[title |-> StoryTitle, wordCountDesc |-> d] :
                    d \in {<<>>, <<"7", " ", "w", "o", "r", "d", "s">>}}
        withAuthor == base \cup {SetField(a, "author", <<"a", "u">>) : a \in base}
    IN  withAuthor
            \cup {SetField(a, "contactInfo", c) :
                     a \in withAuthor, c \in {<<"c">>, <<"c", "\n", "o">>}}

(* The sections the renderer hands to postprocess: paragraphs of the       *)
(* story, one of which may look like the plugin's blank paragraph.         *)
BodyPara(ref) == DocxParagraph(ref, <<"p">>, "left", doubleSpaced)

SectionLists ==
    {<<>>,
     <<[children |-> <<>>]>>,
     <<[children |-> <<BodyPara(1)>>]>>,
     <<[children |-> <<BodyPara(1), BlankPara(2)>>]>>,
     <<[children |-> <<BodyPara(1)>>], [children |-> <<BodyPara(3)>>]>>}

FirstRef == 4

InitFrontMatter ==
    /\ \E a \in PluginArgs : plugin = [made |-> FALSE, args |-> a]
    /\ sections \in SectionLists
    /\ nextRef = FirstRef
    /\ calls = 0
    /\ NoStory
    /\ NoSort
    /\ NoExport
    /\ NoFilename
    /\ NoSave
    /\ notesInfo = <<>>
    /\ metadata = SeedMetadata
    /\ origMetadata = SeedMetadata
    /\ tree = Undefined
    /\ notices = <<>>
    /\ i = 1
    /\ pc = "plugin"

(* Lines 71-92: the plugin and its one blank paragraph are made. *)
AddFrontMatterPlugin ==
    /\ pc = "plugin"
    /\ plugin' = [made |-> TRUE, args |-> plugin.args, blankPara |-> BlankPara(nextRef)]
    /\ nextRef' = nextRef + 1
    /\ pc' = "post"
    /\ UNCHANGED <<mergeVars, filenameVars, saveVars, storyVars, sortVars, exportVars,
                   sections, calls>>

(* The renderer calls postprocess on the sections, maybe several times. *)
Postprocess ==
    /\ pc = "post"
    /\ calls < MaxCalls
    /\ sections' = postprocess(plugin, sections, nextRef)
    /\ nextRef' = nextRef + 4
    /\ calls' = calls + 1
    /\ UNCHANGED <<mergeVars, pc, filenameVars, saveVars, storyVars, sortVars,
                   exportVars, plugin>>

NextFrontMatter == AddFrontMatterPlugin \/ Postprocess

SpecFrontMatter == InitFrontMatter /\ [][NextFrontMatter]_vars

----------------------------------------------------------------------------
(* sortChildrenInFileExplorerOrder (src/src/obsidianUtilities.ts). *)

Alphabetical == <<"a", "l", "p", "h", "a", "b", "e", "t", "i", "c", "a", "l">>

ByModifiedTime ==
    <<"b", "y", "M", "o", "d", "i", "f", "i", "e", "d", "T", "i", "m", "e">>

ByCreatedTime ==
    <<"b", "y", "C", "r", "e", "a", "t", "e", "d", "T", "i", "m", "e">>

ReverseSuffix == <<"R", "e", "v", "e", "r", "s", "e">>

(* String.prototype.endsWith *)
EndsWith(s, suffix) ==
    /\ Len(s) >= Len(suffix)
    /\ SubSeq(s, Len(s) - Len(suffix) + 1, Len(s)) = suffix

ReverseLength == 7

(* order.slice(0, -7) *)
SliceOffReverse(s) == SubSeq(s, 1, Len(s) - ReverseLength)

TimeSmallToLargeAlways(reverse) == TRUE

(* Lines 71 and 74: by time the default is newest first. *)
TimeSmallToLarge(reverse) == reverse

(* Lines 45-84. *)
getFileExplorerSortSettings(ws) ==
    IF ~ws.view
    THEN [order |-> Alphabetical, smallToLarge |-> TRUE, errorMessage |-> "no view"]
    ELSE IF ~Has(ws, "sortOrder") \/ ws.sortOrder = <<>>
    THEN [order |-> Alphabetical, smallToLarge |-> TRUE,
          errorMessage |-> "no sort order"]
    ELSE LET reverse == EndsWith(ws.sortOrder, ReverseSuffix)
             order == IF reverse THEN SliceOffReverse(ws.sortOrder)
                      ELSE ws.sortOrder
         IN  IF order = Alphabetical
             THEN [order |-> Alphabetical, smallToLarge |-> ~reverse,
                   errorMessage |-> "none"]
             ELSE IF order = ByModifiedTime
             THEN [order |-> ByModifiedTime,
                   smallToLarge |-> TimeSmallToLarge(reverse),
                   errorMessage |-> "none"]
             ELSE IF order = ByCreatedTime
             THEN [order |-> ByCreatedTime,
                   smallToLarge |-> TimeSmallToLarge(reverse),
                   errorMessage |-> "none"]
             ELSE [order |-> Alphabetical, smallToLarge |-> TRUE,
                   errorMessage |-> "unexpected value"]

(* A TFile with its stat, and a TFolder. *)
TFile(name, mtime, ctime) ==
    [class |-> "TFile", name |-> name, mtime |-> mtime, ctime |-> ctime]

TFolder(name) == [class |-> "TFolder", name |-> name, mtime |-> 0, ctime |-> 0]

LetterRank(c) == CHOOSE l \in 1..Len(LowerCaseLetters) : LowerCaseLetters[l] = c

(* String.prototype.localeCompare on lower-case names: negative, zero or   *)
(* positive as a sorts before, with or after b.                            *)
RECURSIVE localeCompare(_, _)
localeCompare(a, b) ==
    IF a = <<>> /\ b = <<>> THEN 0
    ELSE IF a = <<>> THEN -1
    ELSE IF b = <<>> THEN 1
    ELSE IF Head(a) = Head(b) THEN localeCompare(Tail(a), Tail(b))
    ELSE IF LetterRank(Head(a)) < LetterRank(Head(b)) THEN -1 ELSE 1

(* Lines 104-112: the key is a time for a file sorted by time, the         *)
(* lower-cased name otherwise.                                             *)
KeyIsTime(order, f) ==
    f.class = "TFile" /\ order \in {ByModifiedTime, ByCreatedTime}

TimeKey(order, f) == IF order = ByModifiedTime THEN f.mtime ELSE f.ctime

NameKey(f) == ToLowerCase(f.name)

(* Lines 98-122: the comparator of the sort. *)
Compare(a, b, order, smallToLarge) ==
    IF a.class = "TFolder" /\ b.class = "TFile" THEN -1
    ELSE IF a.class = "TFile" /\ b.class = "TFolder" THEN 1
    ELSE LET result ==
                 IF KeyIsTime(order, a)
                 THEN TimeKey(order, a) - TimeKey(order, b)
                 ELSE localeCompare(NameKey(a), NameKey(b))
         IN  IF smallToLarge THEN result ELSE -result

(* Array.prototype.sort is stable: an element goes before the first one    *)
(* it compares less than.                                                  *)
RECURSIVE InsertSorted(_, _, _, _)
InsertSorted(x, sorted, order, smallToLarge) ==
    IF sorted = <<>> THEN <<x>>
    ELSE IF Compare(x, Head(sorted), order, smallToLarge) < 0
    THEN <<x>> \o sorted
    ELSE <<Head(sorted)>> \o InsertSorted(x, Tail(sorted), order, smallToLarge)

RECURSIVE SortFrom(_, _, _, _)
SortFrom(list, sorted, order, smallToLarge) ==
    IF list = <<>> THEN sorted
    ELSE SortFrom(Tail(list), InsertSorted(Head(list), sorted, order, smallToLarge),
                  order, smallToLarge)

(* Lines 92-125. *)
sortChildrenInFileExplorerOrder(ws, list) ==
    LET info == getFileExplorerSortSettings(ws)
    IN  SortFrom(list, <<>>, info.order, info.smallToLarge)

(* The entries a folder may hold. *)
Entries ==
    <<TFile(<<"B">>, 1, 3), TFile(<<"a">>, 3, 1), TFile(<<"b">>, 2, 2),
      TFolder(<<"c">>), TFile(<<"a", "b">>, 4, 4)>>

ChildLists ==
    {[x \in 1..Len(p) |-> Entries[p[x]]] :
        p \in {q \in UNION {[1..n -> 1..(MaxChildren + 1)] : n \in 0..MaxChildren} :
                  \A x, y \in DOMAIN q : x # y => q[x] # q[y]}}

SortOrders ==
    {Alphabetical, Alphabetical \o ReverseSuffix,
     ByModifiedTime, ByModifiedTime \o ReverseSuffix,
     ByCreatedTime, ByCreatedTime \o ReverseSuffix,
     <<"x">>, <<"x">> \o ReverseSuffix}

Workspaces ==
    {NoView, [view |-> TRUE]} \cup {[view |-> TRUE, sortOrder |-> o] : o \in SortOrders}

InitSort ==
    /\ workspace \in Workspaces
    /\ folderChildren \in ChildLists
    /\ contents = <<>>
    /\ NoStory
    /\ NoFront
    /\ NoExport
    /\ NoFilename
    /\ NoSave
    /\ notesInfo = <<>>
    /\ metadata = SeedMetadata
    /\ origMetadata = SeedMetadata
    /\ tree = Undefined
    /\ notices = <<>>
    /\ i = 1
    /\ pc = "sort"

(* The call: a copy of the children is sorted, the list itself left alone. *)
SortChildren ==
    /\ pc = "sort"
    /\ contents' = sortChildrenInFileExplorerOrder(workspace, folderChildren)
    /\ pc' = "sorted"
    /\ UNCHANGED <<mergeVars, filenameVars, saveVars, storyVars, frontVars,
                   exportVars, workspace, folderChildren>>

NextSort == SortChildren

SpecSort == InitSort /\ [][NextSort]_vars

----------------------------------------------------------------------------
(* saveAsManuscript (src/src/main.ts) after the merge: the checks, the     *)
(* rendering and the writing of the file (lines 224-303), with the         *)
(* confirm modal of src/src/obsidianComponents.ts.                         *)

IsSlash(c) == c \in {"/", "\\"}

RECURSIVE CollapseSlashes(_)
CollapseSlashes(s) ==
    IF s = <<>> THEN <<>>
    ELSE IF IsSlash(Head(s))
    THEN IF Len(s) >= 2 /\ IsSlash(s[2]) THEN CollapseSlashes(Tail(s))
         ELSE <<"/">> \o CollapseSlashes(Tail(s))
    ELSE <<Head(s)>> \o CollapseSlashes(Tail(s))

RECURSIVE StripSlashes(_)
StripSlashes(s) ==
    IF s # <<>> /\ Head(s) = "/" THEN StripSlashes(Tail(s))
    ELSE IF s # <<>> /\ s[Len(s)] = "/" THEN StripSlashes(SubSeq(s, 1, Len(s) - 1))
    ELSE s

(* Obsidian's normalizePath: runs of slashes and backslashes become one    *)
(* slash, slashes at either end are dropped, the empty path is "/".        *)
normalizePath(path) ==
    LET stripped == StripSlashes(CollapseSlashes(path))
    IN  IF stripped = <<>> THEN <<"/">> ELSE stripped

(* path.join(outdir, filename) *)
PathJoin(dir, file) == dir \o <<"/">> \o file

(* fs.existsSync of main.ts: a directory or a file on the disk. *)
ExistsOnDisk(path, d) == existsSync(path) \/ path \in d

RemoveField(md, k) == [f \in DOMAIN md \ {k} |-> md[f]]

(* Lines 49-54. *)
SettingTitles ==
    [AuthorName |-> "Author name", AuthorSurname |-> "Author surname",
     AuthorContactInformation |-> "Author contact information",
     OutputDir |-> "Output directory"]

MissingSettingsNoOutdir(md, anon, d) ==
    IF anon THEN <<>>
    ELSE (IF md.author = <<>> THEN <<SettingTitles.AuthorName>> ELSE <<>>)
         \o (IF md.surname = <<>> THEN <<SettingTitles.AuthorSurname>> ELSE <<>>)
         \o (IF md.contact = <<>>
             THEN <<SettingTitles.AuthorContactInformation>> ELSE <<>>)

(* Lines 243-257. *)
MissingSettings(md, anon, d) ==
    (IF anon THEN <<>>
     ELSE (IF md.author = <<>> THEN <<SettingTitles.AuthorName>> ELSE <<>>)
          \o (IF md.surname = <<>> THEN <<SettingTitles.AuthorSurname>> ELSE <<>>)
          \o (IF md.contact = <<>>
              THEN <<SettingTitles.AuthorContactInformation>> ELSE <<>>))
    \o (IF ~ExistsOnDisk(md.outdir, d) THEN <<SettingTitles.OutputDir>> ELSE <<>>)

ClearedOnlyIfEmpty(md, k, anon) ==
    IF Has(md, k) /\ md[k] = <<>> THEN RemoveField(md, k) ELSE md

(* if (metadata[k] === "" || anonymize) metadata[k] = undefined *)
Cleared(md, k, anon) ==
    IF (Has(md, k) /\ md[k] = <<>>) \/ anon THEN RemoveField(md, k) ELSE md

(* Lines 277-286. *)
Anonymized(md, anon) ==
    Cleared(Cleared(Cleared(md, "author", anon), "surname", anon), "contact", anon)

(* new Notice(...): what the user is shown. *)
Shown(kind, about) == [kind |-> kind, about |-> about]

NeedsConfirmNever(path, d) == FALSE

(* Line 291. *)
NeedsConfirm(path, d) == ExistsOnDisk(path, d)

(* Lines 397-433: the file is written and the user told so, or the write   *)
(* throws and the user is told that.                                       *)
WriteDocxFile(outPath) ==
    \E ok \in BOOLEAN :
        IF ok
        THEN /\ disk' = disk \cup {outPath}
             /\ writes' = Append(writes, [path |-> outPath,
                                          overwrote |-> outPath \in disk])
             /\ shown' = Append(shown, Shown("saved", <<>>))
        ELSE /\ disk' = disk
             /\ writes' = writes
             /\ shown' = Append(shown, Shown("failed", <<>>))

(* The settings, as the user may have left them: all filled in, or one of  *)
(* the author's left blank; the output directory with spaces around it,    *)
(* with a slash after it, or that of a missing directory.                  *)
AuthorSettings ==
    {<<<<"a", "u">>, <<"s", "u">>, <<"c", "o">>>>,
     <<<<" ">>, <<"s", "u">>, <<"c", "o">>>>,
     <<<<"a", "u">>, <<>>, <<"c", "o">>>>,
     <<<<"a", "u">>, <<"s", "u">>, <<>>>>}

OutputDirSettings == {<<" ", "s">>, <<"s", "/">>, <<"n">>}

ExportSettings ==
    {[authorName |-> a[1], authorSurname |-> a[2],
      authorContactInformation |-> a[3], outputDir |-> o] :
        a \in AuthorSettings, o \in OutputDirSettings}

(* The properties a note of the story may have. *)
ExportFrontmatters ==
    {<<FALSE, <<>>>>,
     <<TRUE, <<<<"author", <<"o", "t">>>>, <<"surname", <<"o", "t">>>>>>>>,
     <<TRUE, <<<<"outdir", <<"a">>>>, <<"contact", <<"o", "t">>>>>>>>,
     <<TRUE, <<<<"author", <<>>>>>>>>,
     <<TRUE, <<<<"outdir", <<"n">>>>>>>>}

ExportContent(j) ==
    IF j % 2 = 1 THEN PlainContent
    ELSE <<Yaml(<<"t">>), Paragraph(<<Text(<<"a">>)>>)>>

ExportFolder == <<"S">>

(* The manuscript files that may be on the disk already. *)
OutputFiles ==
    {PathJoin(d, folderNameToDocxOutfileName(ExportFolder)) : d \in ExistingDirs}

InitExport ==
    /\ \E n \in 0..MaxExportNotes : \E fs \in [1..n -> ExportFrontmatters] :
           folderNotes = [j \in 1..n |-> FileOf(j, ExportContent(j), fs[j])]
    /\ settings \in ExportSettings
    /\ anonymize \in BOOLEAN
    /\ disk \in {{}, OutputFiles}
    /\ shown = <<>>
    /\ writes = <<>>
    /\ modal = NoModal
    /\ values = <<>>
    /\ completed = <<>>
    /\ folderName = ExportFolder
    /\ outFilename = <<>>
    /\ notesInfo = <<>>
    /\ metadata = SeedMetadata
    /\ origMetadata = SeedMetadata
    /\ tree = Undefined
    /\ notices = <<>>
    /\ i = 1
    /\ NoStory
    /\ NoFront
    /\ NoSort
    /\ pc = "save"

(* Lines 224-288, after the merge has returned: no tree, or settings       *)
(* missing, end the run with a notice; otherwise storyMdToDocx is called.  *)
CheckAndRender ==
    /\ pc = "done"
    /\ IF tree.type = "undefined"
       THEN /\ shown' = Append(shown, Shown("no markdown", <<>>))
            /\ pc' = "ended"
            /\ UNCHANGED <<metadata, rendered>>
       ELSE LET told == shown \o [n \in 1..Len(notices) |-> Shown("merge notice", <<>>)]
                normalized == SetField(metadata, "outdir",
                                       normalizePath(metadata.outdir))
                missingSettings == MissingSettings(normalized, anonymize, disk)
            IN  IF Len(missingSettings) > 0
                THEN /\ shown' = Append(told, Shown("configure", missingSettings))
                     /\ metadata' = normalized
                     /\ pc' = "ended"
                     /\ UNCHANGED rendered
                ELSE /\ shown' = told
                     /\ metadata' = Anonymized(normalized, anonymize)
                     /\ rendered' = storyMdToDocx(tree, Anonymized(normalized, anonymize),
                                                  locale)
                     /\ pc' = "rendering"
    /\ UNCHANGED <<notesInfo, origMetadata, tree, notices, i, filenameVars, saveVars,
                   locale, frontVars, sortVars, settings, anonymize, disk, writes,
                   modal>>

(* Lines 288-303, once the document is rendered: the file is written, or   *)
(* the confirm modal is opened when there is one already.                  *)
SaveDocx ==
    /\ pc = "rendering"
    /\ LET outFullPath == PathJoin(metadata.outdir, metadata.filename)
       IN  IF NeedsConfirm(outFullPath, disk)
           THEN /\ modal' = [made |-> TRUE, open |-> TRUE, path |-> outFullPath,
                             closes |-> 0, yes |-> 0, no |-> 0]
                /\ pc' = "modal"
                /\ UNCHANGED <<shown, disk, writes>>
           ELSE /\ WriteDocxFile(outFullPath)
                /\ pc' = "finished"
                /\ UNCHANGED modal
    /\ UNCHANGED <<mergeVars, filenameVars, saveVars, storyVars, frontVars, sortVars,
                   settings, anonymize>>

(* obsidianComponents.ts, lines 48-51: the "Overwrite" button. *)
PressYes ==
    /\ pc = "modal"
    /\ modal.open
    /\ modal' = [modal EXCEPT !.open = FALSE, !.closes = @ + 1, !.yes = @ + 1]
    /\ WriteDocxFile(modal.path)
    /\ pc' = "finished"
    /\ UNCHANGED <<mergeVars, filenameVars, saveVars, storyVars, frontVars, sortVars,
                   settings, anonymize>>

(* obsidianComponents.ts, lines 54-57: the "Cancel" button. *)
PressNo ==
    /\ pc = "modal"
    /\ modal.open
    /\ modal' = [modal EXCEPT !.open = FALSE, !.closes = @ + 1, !.no = @ + 1]
    /\ pc' = "finished"
    /\ UNCHANGED <<mergeVars, filenameVars, saveVars, storyVars, frontVars, sortVars,
                   settings, anonymize, shown, disk, writes>>

(* The user closes the modal without pressing a button. *)
CloseModal ==
    /\ pc = "modal"
    /\ modal.open
    /\ modal' = [modal EXCEPT !.open = FALSE, !.closes = @ + 1]
    /\ pc' = "finished"
    /\ UNCHANGED <<mergeVars, filenameVars, saveVars, storyVars, frontVars, sortVars,
                   settings, anonymize, shown, disk, writes>>

NextExport ==
    \/ StartReads \/ CompleteRead \/ FailRead \/ AllRead
    \/ Enter \/ ProcessNote \/ Return
    \/ CheckAndRender \/ SaveDocx \/ PressYes \/ PressNo \/ CloseModal

SpecExport == InitExport /\ [][NextExport]_vars

----------------------------------------------------------------------------
(* Vocabulary of the properties. *)

NumNotes == Len(notesInfo)

(* The notes the loop has finished with. *)
Processed == IF pc = "call" THEN 0 ELSE i - 1

NoteWords(info) == CountWords(Parse(info.content))

Orderings(n) ==
    {p \in [1..n -> 1..n] : \A x, y \in 1..n : x # y => p[x] # p[y]}

TopLevelKept(info) == SelectSeq(info.content, LAMBDA node : node.type # "yaml")

RECURSIVE ExpectedChildren(_)
ExpectedChildren(notes) ==
    IF Len(notes) <= 1
    THEN IF notes = <<>> THEN <<>> ELSE TopLevelKept(notes[1])
    ELSE ExpectedChildren(SubSeq(notes, 1, Len(notes) - 1))
         \o <<[type |-> "thematicBreak", value |-> <<>>, children |-> <<>>]>>
         \o TopLevelKept(notes[Len(notes)])

ChildrenOf(t) == IF t.type = "undefined" THEN <<>> ELSE t.children

Breaks(children) ==
    Cardinality({j \in 1..Len(children) : children[j].type = "thematicBreak"})

OwnBreaks(notes) ==
    SumSeq([j \in 1..Len(notes) |-> Breaks(notes[j].content)])

----------------------------------------------------------------------------
(* C1: after the call metadata.wordcount is the sum of the notes' own word *)
(* counts, whatever word count the seed metadata held, and the call gives  *)
(* the same word count on every permutation of the notes and every seed.   *)
C1_WordcountIsSum ==
    pc = "done" =>
        /\ metadata.wordcount =
               SumSeq([j \in 1..NumNotes |-> NoteWords(notesInfo[j])])
        /\ \A p \in Orderings(NumNotes) : \A seed \in SeedMetadatas :
               obsidianNotesToAST([j \in 1..NumNotes |-> notesInfo[p[j]]],
                                  seed).metadata.wordcount
                   = metadata.wordcount

C1_Witness ==
    /\ pc = "done"
    /\ NumNotes >= 2
    /\ NoteWords(notesInfo[1]) # NoteWords(notesInfo[2])
    /\ NoteWords(notesInfo[2]) > 0
    /\ Has(origMetadata, "wordcount") /\ origMetadata.wordcount > 0
    /\ metadata.wordcount = NoteWords(notesInfo[1]) + NoteWords(notesInfo[2])

(* C2: once at least one note is processed, the merged tree's children are *)
(* the first note's top-level children without front matter, then for each *)
(* later note in input order one thematicBreak and that note's children;   *)
(* nothing precedes the first note's children or follows the last note's.  *)
C2_ChildrenInOrder ==
    Processed >= 1 =>
        /\ tree.type = "root"
        /\ tree.children = ExpectedChildren(SubSeq(notesInfo, 1, Processed))

C2_Witness ==
    /\ pc = "done"
    /\ NumNotes = 3
    /\ \A j \in 1..3 : TopLevelKept(notesInfo[j]) # <<>>
    /\ Len(notesInfo[1].content) > Len(TopLevelKept(notesInfo[1]))
    /\ Len(tree.children) =
           2 + SumSeq([j \in 1..3 |-> Len(TopLevelKept(notesInfo[j]))])

(* C3: a merge of N notes inserts N-1 separators when N >= 1 and none when *)
(* N = 0: the thematic breaks of the merged top level, less those of the   *)
(* notes' own Markdown, number one per processed note after the first,     *)
(* also for notes that contribute no top-level node.                       *)
C3_SeparatorCount ==
    Breaks(ChildrenOf(tree)) - OwnBreaks(SubSeq(notesInfo, 1, Processed))
        = IF Processed >= 1 THEN Processed - 1 ELSE 0

C3_Witness ==
    /\ pc = "done"
    /\ NumNotes = 3
    /\ TopLevelKept(notesInfo[2]) = <<>>
    /\ Breaks(notesInfo[3].content) = 1
    /\ Breaks(tree.children) = 3

----------------------------------------------------------------------------
(* Vocabulary of the properties about note properties. *)

EnumerationOrder ==
    <<"title", "filename", "outdir", "author", "surname", "contact">>

EnumeratedKeys == {EnumerationOrder[r] : r \in 1..Len(EnumerationOrder)}

Rank(k) == CHOOSE r \in 1..Len(EnumerationOrder) : EnumerationOrder[r] = k

(* A field as zero or one value: <<>> is undefined. *)
Field(record, k) == IF Has(record, k) THEN <<record[k]>> ELSE <<>>

IsBlank(val) == \A c \in 1..Len(val) : val[c] \in Whitespace

DefinesKey(j, k) == Defines(notesInfo[j], k)

Given(j, k) == ValueOf(notesInfo[j], k)

(* Note j gives k a value the merge accepts: for outdir, a directory that  *)
(* exists.                                                                 *)
Accepted(j, k) ==
    DefinesKey(j, k) /\ (k = "outdir" => Given(j, k) \in ExistingDirs)

(* The value of k once notes 1..j are processed, from the inputs alone:    *)
(* the value of the last of them that gave an accepted value, else the     *)
(* seed's.                                                                 *)
LastAccepted(j, k) ==
    LET givers == {x \in 1..j : Accepted(x, k)}
    IN  IF givers = {} THEN Field(origMetadata, k)
        ELSE <<Given(CHOOSE x \in givers : \A y \in givers : y <= x, k)>>

(* The same, when blank values are passed over. *)
LastAcceptedNonBlank(j, k) ==
    LET givers == {x \in 1..j : Accepted(x, k) /\ ~IsBlank(Given(x, k))}
    IN  IF givers = {} THEN Field(origMetadata, k)
        ELSE <<Given(CHOOSE x \in givers : \A y \in givers : y <= x, k)>>

RedefinitionNotices(j) ==
    {n \in 1..Len(notices) :
        notices[n].kind = "re-defined" /\ notices[n].note = NoteName(j)}

BlankNotices(j, k) ==
    {n \in 1..Len(notices) :
        /\ notices[n].kind = "blank"
        /\ notices[n].note = NoteName(j)
        /\ notices[n].key = k}

(* Note j's redefinition notice names k. *)
Listed(j, k) ==
    \E n \in RedefinitionNotices(j) :
        \E x \in 1..Len(notices[n].props) : notices[n].props[x] = k

(* C5: after the merge every override key holds the value of the last note *)
(* that gives it (for outdir: that gives a directory that exists), and its *)
(* seed value when no note does.                                           *)
C5_LastWriteWins ==
    pc = "done" =>
        \A k \in EnumeratedKeys : Field(metadata, k) = LastAccepted(NumNotes, k)

C5_Witness ==
    /\ pc = "done"
    /\ NumNotes = 2
    /\ DefinesKey(1, "title") /\ DefinesKey(2, "title")
    /\ Given(1, "title") # Given(2, "title")
    /\ metadata.title = Given(2, "title")
    /\ DefinesKey(1, "outdir") /\ Accepted(1, "outdir")
    /\ DefinesKey(2, "outdir") /\ ~Accepted(2, "outdir")
    /\ metadata.outdir = Given(1, "outdir")
    /\ metadata.outdir # origMetadata.outdir
    /\ ~Has(metadata, "author")

(* C6: a property whose value is empty or only whitespace is never written *)
(* to the metadata, produces exactly one "<key> property on note <name> is  *)
(* blank. Ignoring." notice, and is never listed in a redefinition notice. *)
C6_BlankIgnored ==
    /\ \A k \in EnumeratedKeys :
           Field(metadata, k) = LastAcceptedNonBlank(Processed, k)
    /\ \A j \in 1..Processed : \A k \in EnumeratedKeys :
           (DefinesKey(j, k) /\ IsBlank(Given(j, k))) =>
               /\ Cardinality(BlankNotices(j, k)) = 1
               /\ ~Listed(j, k)

(* C7 as stated: a note's redefinition notice lists k exactly when the     *)
(* note gives k a non-blank value that differs from the pre-merge value.   *)
C7_ListedIffValueDiffersFromBaseline ==
    \A j \in 1..Processed : \A k \in EnumeratedKeys :
        Listed(j, k) <=>
            /\ DefinesKey(j, k)
            /\ ~IsBlank(Given(j, k))
            /\ <<Given(j, k)>> # Field(origMetadata, k)

(* C7 as the code has it: a note's redefinition notice lists k exactly     *)
(* when the note defines k and the value the metadata holds for k when the *)
(* note is reached, left there by the earlier notes, differs from the      *)
(* pre-merge value; the value the note itself gives plays no part.         *)
C7_ListedIffEarlierNoteChanged ==
    \A j \in 1..Processed : \A k \in EnumeratedKeys :
        Listed(j, k) <=>
            /\ DefinesKey(j, k)
            /\ LastAccepted(j - 1, k) # Field(origMetadata, k)

C7_Witness ==
    /\ pc = "done"
    /\ NumNotes = 2
    /\ DefinesKey(1, "title") /\ <<Given(1, "title")>> # Field(origMetadata, "title")
    /\ DefinesKey(2, "title") /\ <<Given(2, "title")>> = Field(origMetadata, "title")
    /\ ~Listed(1, "title")
    /\ Listed(2, "title")

(* C8: when two or more notes of a merge define the same key, every note   *)
(* after the first that defines it produces a redefinition notice naming   *)
(* the key.                                                                *)
C8_LaterDefinersListed ==
    \A j \in 1..Processed : \A k \in EnumeratedKeys :
        (DefinesKey(j, k) /\ \E x \in 1..(j - 1) : DefinesKey(x, k)) =>
            Listed(j, k)

(* C9: the first note of the merge that defines a key never lists it in    *)
(* its redefinition notice, and a merge in which every key is defined by   *)
(* at most one note, every outdir given being a directory that exists,     *)
(* returns no notice.                                                      *)
C9_FirstDefinerNotListed ==
    /\ \A j \in 1..Processed : \A k \in EnumeratedKeys :
           (DefinesKey(j, k) /\ \A x \in 1..(j - 1) : ~DefinesKey(x, k)) =>
               ~Listed(j, k)
    /\ ( /\ pc = "done"
         /\ \A k \in EnumeratedKeys :
                Cardinality({j \in 1..NumNotes : DefinesKey(j, k)}) <= 1
         /\ \A j \in 1..NumNotes : Accepted(j, "outdir") \/ ~DefinesKey(j, "outdir") )
       => notices = <<>>

C9_Witness ==
    /\ pc = "done"
    /\ NumNotes = 2
    /\ DefinesKey(1, "title") /\ metadata.title # origMetadata.title
    /\ DefinesKey(1, "outdir") /\ metadata.outdir # origMetadata.outdir
    /\ DefinesKey(2, "contact") /\ Has(metadata, "contact")
    /\ ~DefinesKey(2, "title") /\ ~DefinesKey(2, "outdir")
    /\ notices = <<>>

(* C10: each note produces at most one redefinition notice, produced       *)
(* exactly when the note defines a key whose value the earlier notes had   *)
(* changed, and the notice names its keys in the order title, filename,    *)
(* outdir, author, surname, contact whatever the order of the note's       *)
(* property bag.                                                           *)
C10_OneNoticeInEnumerationOrder ==
    \A j \in 1..Processed :
        /\ Cardinality(RedefinitionNotices(j)) <= 1
        /\ Cardinality(RedefinitionNotices(j)) = 1 <=>
               \E k \in EnumeratedKeys :
                   DefinesKey(j, k) /\ LastAccepted(j - 1, k) # Field(origMetadata, k)
        /\ \A n \in RedefinitionNotices(j) :
               /\ notices[n].props # <<>>
               /\ \A x, y \in 1..Len(notices[n].props) :
                      x < y => Rank(notices[n].props[x]) < Rank(notices[n].props[y])

C10_Witness ==
    /\ pc = "done"
    /\ NumNotes = 2
    /\ HasFrontmatter(notesInfo[2])
    /\ Len(notesInfo[2].frontmatter) = 2
    /\ notesInfo[2].frontmatter[1][1] = "contact"
    /\ notesInfo[2].frontmatter[2][1] = "title"
    /\ Len(notices) = 1
    /\ notices[1] = [kind |-> "re-defined", note |-> NoteName(2),
                     props |-> <<"title", "contact">>]

----------------------------------------------------------------------------
(* A note without the properties that are no override key. *)
WithoutExtraProps(info) ==
    IF HasFrontmatter(info)
    THEN [info EXCEPT !.frontmatter =
              SelectSeq(@, LAMBDA pair : pair[1] \in EnumeratedKeys)]
    ELSE info

DefinesOnlyExtraProps(info) ==
    HasFrontmatter(info) => \A k \in EnumeratedKeys : ~Defines(info, k)

(* C11: properties outside the six override keys, a property named         *)
(* wordcount included, change no metadata field and produce no notice: the *)
(* merge ends as it does on the same notes without those properties, and   *)
(* when no note defines an override key the six fields hold their seed     *)
(* values, wordcount is the counted total and there is no notice.          *)
C11_OtherPropertiesIgnored ==
    pc = "done" =>
        /\ LET r == obsidianNotesToAST(
                        [j \in 1..NumNotes |-> WithoutExtraProps(notesInfo[j])],
                        origMetadata)
           IN  /\ metadata = r.metadata
               /\ notices = r.notices
        /\ (\A j \in 1..NumNotes : DefinesOnlyExtraProps(notesInfo[j])) =>
               /\ DOMAIN metadata = DOMAIN origMetadata \cup {"wordcount"}
               /\ \A k \in EnumeratedKeys : Field(metadata, k) = Field(origMetadata, k)
               /\ metadata.wordcount =
                      SumSeq([j \in 1..NumNotes |-> NoteWords(notesInfo[j])])
               /\ notices = <<>>

C11_Witness ==
    /\ pc = "done"
    /\ NumNotes = 2
    /\ \A j \in 1..2 :
           /\ HasFrontmatter(notesInfo[j])
           /\ Len(notesInfo[j].frontmatter) = 2
           /\ notesInfo[j].frontmatter[1][1] = "irrelevant"
           /\ notesInfo[j].frontmatter[2][1] = "wordcount"
    /\ Has(origMetadata, "wordcount") /\ origMetadata.wordcount > 0
    /\ metadata.wordcount = NoteWords(notesInfo[1]) + NoteWords(notesInfo[2])
    /\ metadata.wordcount # 7
    /\ notices = <<>>

----------------------------------------------------------------------------
MissingDirNotices(j) ==
    {n \in 1..Len(notices) :
        /\ notices[n].kind = "non-existent directory"
        /\ notices[n].note = NoteName(j)}

OutdirDefiners(j) == {x \in 1..j : DefinesKey(x, "outdir")}

----------------------------------------------------------------------------
NotYaml(node) == node.type # "yaml"

NotBreak(node) == node.type # "thematicBreak"

IsPrefix(s, t) == Len(s) <= Len(t) /\ SubSeq(t, 1, Len(s)) = s

(* C13: no top-level yaml node of any note, first or later, is among the   *)
(* merged children, and every other top-level node of every note is kept,  *)
(* in its original order: apart from thematic breaks the merged children   *)
(* are the notes' non-yaml nodes in sequence, and nothing but one          *)
(* separator per later note is added to them.                              *)
C13_FrontMatterRemovedOrderKept ==
    LET done == SubSeq(notesInfo, 1, Processed)
        kept == [j \in 1..Processed |-> SelectSeq(done[j].content, NotYaml)]
    IN  /\ \A x \in 1..Len(ChildrenOf(tree)) : ChildrenOf(tree)[x].type # "yaml"
        /\ SelectSeq(ChildrenOf(tree), NotBreak)
               = SelectSeq(Concat(kept), NotBreak)
        /\ Len(ChildrenOf(tree))
               = Len(Concat(kept)) + (IF Processed >= 1 THEN Processed - 1 ELSE 0)

C13_Witness ==
    /\ pc = "done"
    /\ NumNotes = 3
    /\ \A j \in 1..3 : notesInfo[j].content # <<>>
    /\ notesInfo[1].content[1].type = "yaml" /\ Len(notesInfo[1].content) = 2
    /\ notesInfo[2].content[1].type = "paragraph"
    /\ notesInfo[3].content[1].type = "yaml" /\ Len(notesInfo[3].content) = 2
    /\ Len(tree.children) >= 5
    /\ tree.children[1].type = "paragraph"

(* C14: during a merge metadata.wordcount is 0 before the first note is    *)
(* processed and no pass of the loop decreases it, for every note list and *)
(* every seed word count.                                                  *)
C14_WordcountNeverDecreases ==
    [][pc = "loop" =>
          /\ i = 1 => metadata.wordcount = 0
          /\ metadata'.wordcount >= metadata.wordcount]_vars

C14_Witness ==
    /\ pc = "loop"
    /\ i = 4
    /\ Has(origMetadata, "wordcount") /\ origMetadata.wordcount > 0
    /\ NoteWords(notesInfo[1]) > NoteWords(notesInfo[2])
    /\ NoteWords(notesInfo[2]) > 0
    /\ NoteWords(notesInfo[3]) = 0
    /\ metadata.wordcount = NoteWords(notesInfo[1]) + NoteWords(notesInfo[2])

(* C15: the merged children list only grows at its end: the list before a  *)
(* pass of the loop is a prefix of the list after it.                      *)
C15_ChildrenAppendOnly ==
    [][(pc = "loop" /\ tree.type = "root") =>
          /\ tree'.type = "root"
          /\ IsPrefix(tree.children, tree'.children)]_vars

C15_Witness ==
    /\ pc = "done"
    /\ NumNotes = 3
    /\ \A j \in 1..3 : TopLevelKept(notesInfo[j]) # <<>>
    /\ TopLevelKept(notesInfo[1]) # TopLevelKept(notesInfo[2])
    /\ TopLevelKept(notesInfo[2]) # TopLevelKept(notesInfo[3])
    /\ IsPrefix(TopLevelKept(notesInfo[1]), tree.children)
    /\ Len(tree.children) > Len(TopLevelKept(notesInfo[1])) + 2

----------------------------------------------------------------------------
(* The maximal runs of non-whitespace characters of a string. *)
Runs(value) ==
    Cardinality({x \in 1..Len(value) :
                    /\ value[x] \notin {" ", "\t", "\n"}
                    /\ x = 1 \/ value[x - 1] \in {" ", "\t", "\n"}})

RECURSIVE RunsInTree(_)
RunsInTree(node) ==
    (IF node.type = "text" THEN Runs(node.value) ELSE 0)
    + SumSeq([x \in 1..Len(node.children) |-> RunsInTree(node.children[x])])

(* C16: the word count is the number of maximal runs of non-whitespace     *)
(* characters over the text nodes at any depth; empty and whitespace-only  *)
(* text nodes and nodes of any other type add nothing, so the count made   *)
(* before the front matter is removed is the count of the notes without    *)
(* their front matter, and of the merged tree.                             *)
C16_WordsAreRunsOfTextNodes ==
    pc # "call" =>
        /\ metadata.wordcount =
               SumSeq([j \in 1..Processed |->
                          RunsInTree([type |-> "root", value |-> <<>>,
                                      children |-> notesInfo[j].content])])
        /\ metadata.wordcount =
               SumSeq([j \in 1..Processed |->
                          RunsInTree([type |-> "root", value |-> <<>>,
                                      children |-> TopLevelKept(notesInfo[j])])])
        /\ tree.type = "root" => metadata.wordcount = RunsInTree(tree)

C16_Witness ==
    /\ pc = "done"
    /\ NumNotes = 1
    /\ Len(notesInfo[1].content) = 4
    /\ notesInfo[1].content[1].type = "yaml"
    /\ notesInfo[1].content[1].value = <<"a", "\t", "a">>
    /\ notesInfo[1].content[2].children[1].value = <<"a", "\t", "a">>
    /\ notesInfo[1].content[2].children[2].children[1].value = <<" ", "\t">>
    /\ metadata.wordcount = 2

----------------------------------------------------------------------------
(* Vocabulary of the properties about file names. *)

WindowsForbidden == {"<", ">", ":", "\"", "/", "\\", "|", "?", "*"}

IsUpperCase(c) ==
    c \in {"A", "B", "C", "D", "E", "F", "G", "H", "I", "J", "K", "L", "M",
           "N", "O", "P", "Q", "R", "S", "T", "U", "V", "W", "X", "Y", "Z"}

WithoutForbidden(name) == SelectSeq(name, LAMBDA c : c \notin WindowsForbidden)

(* The result without its ".docx". *)
BaseName == SubSeq(outFilename, 1, Len(outFilename) - 5)

(* The length of the first k pieces joined by dashes. *)
JoinedLength(pieces, k) == SumSeq([x \in 1..k |-> Len(pieces[x])]) + (k - 1)

(* C17: the result holds none of the characters < > : " / \ | ? * and no   *)
(* upper-case letter, and stripping inserts nothing: the result is that of *)
(* the name with its forbidden characters taken out, so "A<A" gives        *)
(* "aa.docx".                                                              *)
C17_NoForbiddenNoUpperCase ==
    pc = "named" =>
        /\ \A x \in 1..Len(outFilename) :
               outFilename[x] \notin WindowsForbidden /\ ~IsUpperCase(outFilename[x])
        /\ outFilename = folderNameToDocxOutfileName(WithoutForbidden(folderName))
        /\ folderName = <<"A", "<", "A">> =>
               outFilename = <<"a", "a", ".", "d", "o", "c", "x">>

C17_Witness ==
    /\ pc = "named"
    /\ folderName = <<"A", "<", "A">>
    /\ outFilename = <<"a", "a", ".", "d", "o", "c", "x">>

(* C18: the result is the longest prefix of the pieces whose dash-joined   *)
(* length is at most 32 (the first piece alone when even it is longer),    *)
(* joined by single dashes and followed by ".docx"; the first piece that   *)
(* does not fit ends the prefix, whatever follows it.                      *)
C18_LongestPrefixWithin32 ==
    pc = "named" =>
        LET pieces == FilenamePieces(folderName)
            fits == {k \in 1..Len(pieces) : JoinedLength(pieces, k) <= 32}
            kept == IF fits = {} THEN 1
                    ELSE CHOOSE k \in fits : \A other \in fits : other <= k
        IN  /\ outFilename =
                   Join(SubSeq(pieces, 1, kept), <<"-">>) \o <<".", "d", "o", "c", "x">>
            /\ kept > 1 => Len(BaseName) <= 32

C18_Witness ==
    /\ pc = "named"
    /\ folderName = [x \in 1..30 |-> "D"] \o <<" ">> \o [x \in 1..10 |-> "c"]
                        \o <<" ", "b">>
    /\ BaseName = [x \in 1..30 |-> "d"]

(* C19: whitespace at either end of the name, also when stripping leaves   *)
(* it there, gives no empty piece: the result is that of the trimmed name, *)
(* and the base name neither starts nor ends with a dash the input did not *)
(* have.                                                                   *)
C19_EndWhitespaceGivesNoPiece ==
    pc = "named" =>
        /\ outFilename = folderNameToDocxOutfileName(Trim(WithoutForbidden(folderName)))
        /\ BaseName # <<>> =>
               /\ BaseName[1] = "-" => Trim(WithoutForbidden(folderName))[1] = "-"
               /\ BaseName[Len(BaseName)] = "-" =>
                      Trim(WithoutForbidden(folderName))
                          [Len(Trim(WithoutForbidden(folderName)))] = "-"

----------------------------------------------------------------------------
(* C20: whatever the order in which the reads complete, the list handed to *)
(* obsidianNotesToAST has the notes in the order of the sorted folder, each *)
(* content with its own note's name and front matter, and the merge runs    *)
(* only when every read has completed.                                      *)
C20_NotesHandedOverInFolderOrder ==
    pc \in {"call", "loop", "done"} =>
        /\ Pending = {}
        /\ Len(notesInfo) = Len(folderNotes)
        /\ \A j \in 1..Len(folderNotes) :
               /\ notesInfo[j].name = folderNotes[j].name
               /\ notesInfo[j].content = folderNotes[j].data
               /\ HasFrontmatter(notesInfo[j]) = Has(folderNotes[j], "frontmatter")
               /\ HasFrontmatter(notesInfo[j]) =>
                      notesInfo[j].frontmatter = folderNotes[j].frontmatter

C20_Witness ==
    /\ pc = "done"
    /\ Len(folderNotes) = 3
    /\ completed = <<3, 1, 2>>
    /\ folderNotes[1].data # folderNotes[2].data
    /\ Has(folderNotes[1], "frontmatter") /\ ~Has(folderNotes[3], "frontmatter")
    /\ notesInfo[1].content = folderNotes[1].data
    /\ HasFrontmatter(notesInfo[1]) /\ ~HasFrontmatter(notesInfo[3])

----------------------------------------------------------------------------
MissingDirNoticesIn(ns, name) ==
    {n \in 1..Len(ns) :
        ns[n].kind = "non-existent directory" /\ ns[n].note = name}

----------------------------------------------------------------------------
(* C29: a note's redefinition notice lists a key only if the note wrote    *)
(* its value for that key into the metadata; a note whose outdir is        *)
(* rejected for a directory that does not exist is not listed as having    *)
(* re-defined outdir.                                                      *)
C29_ListedOnlyIfWritten ==
    pc = "done" =>
        \A j \in 1..NumNotes : \A x \in 1..Len(OverrideKeys) :
            Listed(j, OverrideKeys[x]) =>
                /\ DefinesKey(j, OverrideKeys[x])
                /\ ~RejectsOutdir(OverrideKeys[x], Given(j, OverrideKeys[x]))

----------------------------------------------------------------------------
RoundToThousand(n) == ((n + 500) \div 1000) * 1000

----------------------------------------------------------------------------
(* C30: the text of the page header is the story title followed by " / "   *)
(* and the page number, preceded by "<surname> / " when a surname is       *)
(* defined; the title is there with and without a surname.                 *)
C30_HeaderHasTitle ==
    pc = "rendering" =>
        /\ rendered.header.pageNumber = "CURRENT"
        /\ rendered.header.text =
               (IF Has(metadata, "surname") THEN metadata.surname \o Slash ELSE <<>>)
                   \o metadata.title \o Slash

----------------------------------------------------------------------------
(* C22: on a first section with no children and with an author, postprocess *)
(* leaves exactly 13 children: the heading table first (index 0), the title *)
(* paragraph at index 11 and the "by <author>" paragraph at index 12 as the *)
(* last child, both centered and double-spaced.                             *)
C22_ThirteenChildrenAuthorLast ==
    [][(pc = "post" /\ calls = 0 /\ sections # <<>>
            /\ sections[1].children = <<>> /\ Has(plugin.args, "author")) =>
          LET children == sections'[1].children
          IN  /\ Len(children) = 13
              /\ children[1].kind = "Table"
              /\ children[12].text = plugin.args.title
              /\ children[13].text = <<"b", "y", " ">> \o plugin.args.author
              /\ \A x \in {12, 13} :
                     /\ children[x].alignment = "center"
                     /\ children[x].spacing.line = 480]_vars

----------------------------------------------------------------------------
(* C23: however often postprocess of one plugin is called on the same      *)
(* sections, the front matter is added once: the first call on a non-empty *)
(* list puts it before the children the section had, every later call      *)
(* leaves the sections as they are, and an empty list stays empty.         *)
C23_FrontMatterAddedOnce ==
    [][pc = "post" =>
          /\ sections = <<>> => sections' = <<>>
          /\ calls >= 1 => sections' = sections
          /\ (calls = 0 /\ sections # <<>>) =>
                 LET old == sections[1].children
                     new == sections'[1].children
                 IN  /\ Len(new) > Len(old)
                     /\ SubSeq(new, Len(new) - Len(old) + 1, Len(new)) = old
                     /\ new[1].kind = "Table"
                     /\ \A x \in 2..Len(sections) : sections'[x] = sections[x]]_vars

C23_Witness ==
    /\ pc = "post"
    /\ calls = 3
    /\ Len(sections) = 1
    /\ Len(sections[1].children) = 16
    /\ sections[1].children[1].kind = "Table"
    /\ sections[1].children[2] = plugin.blankPara
    /\ sections[1].children[16] = BlankPara(2)
    /\ Cardinality({x \in 1..16 : sections[1].children[x].kind = "Table"}) = 1

----------------------------------------------------------------------------
(* The setting the File Explorer shows, alphabetical when there is no view, *)
(* no sortOrder or an unknown one.                                          *)
ShownOrder ==
    IF workspace.view /\ Has(workspace, "sortOrder")
           /\ workspace.sortOrder \in
                  {Alphabetical \o ReverseSuffix,
                   ByModifiedTime, ByModifiedTime \o ReverseSuffix,
                   ByCreatedTime, ByCreatedTime \o ReverseSuffix}
    THEN workspace.sortOrder
    ELSE Alphabetical

RECURSIVE NameLeq(_, _)
NameLeq(a, b) ==
    \/ a = <<>>
    \/ /\ b # <<>>
       /\ \/ LetterRank(Head(a)) < LetterRank(Head(b))
          \/ Head(a) = Head(b) /\ NameLeq(Tail(a), Tail(b))

(* File f may come before file g under the shown order. *)
MayPrecede(f, g) ==
    IF ShownOrder = Alphabetical
    THEN NameLeq(ToLowerCase(f.name), ToLowerCase(g.name))
    ELSE IF ShownOrder = Alphabetical \o ReverseSuffix
    THEN NameLeq(ToLowerCase(g.name), ToLowerCase(f.name))
    ELSE IF ShownOrder = ByModifiedTime THEN f.mtime >= g.mtime
    ELSE IF ShownOrder = ByModifiedTime \o ReverseSuffix THEN f.mtime <= g.mtime
    ELSE IF ShownOrder = ByCreatedTime THEN f.ctime >= g.ctime
    ELSE f.ctime <= g.ctime

(* C26: the result of sortChildrenInFileExplorerOrder is a permutation of  *)
(* its input, the input is left as it was, and the files of the result     *)
(* follow the File Explorer setting: A-Z by lower-cased name for           *)
(* alphabetical, Z-A for its reverse, newest first by modified or created  *)
(* time, oldest first for their reverses, and A-Z when the view, the       *)
(* sortOrder or its value is not as expected.                              *)
C26_SortedAsFileExplorer ==
    [][pc = "sort" =>
          /\ folderChildren' = folderChildren
          /\ Len(contents') = Len(folderChildren)
          /\ \A e \in 1..Len(Entries) :
                 Cardinality({x \in 1..Len(contents') : contents'[x] = Entries[e]})
                     = Cardinality({x \in 1..Len(folderChildren) : folderChildren[x] = Entries[e]})
          /\ \A x, y \in 1..Len(contents') :
                 (x < y /\ contents'[x].class = "TFile" /\ contents'[y].class = "TFile")
                     => MayPrecede(contents'[x], contents'[y])]_vars

C26_Witness ==
    /\ pc = "sorted"
    /\ workspace.view /\ Has(workspace, "sortOrder")
    /\ workspace.sortOrder = ByModifiedTime
    /\ folderChildren = <<Entries[1], Entries[2], Entries[3]>>
    /\ contents = <<Entries[2], Entries[3], Entries[1]>>

----------------------------------------------------------------------------
AuthorKeys == {"author", "surname", "contact"}

(* A note without its author, surname and contact properties. *)
WithoutAuthorProps(info) ==
    IF HasFrontmatter(info)
    THEN [info EXCEPT !.frontmatter =
             SelectSeq(@, LAMBDA pair : pair[1] \notin AuthorKeys)]
    ELSE info

(* The metadata of the export with the author's settings blanked out. *)
SeedWithoutAuthor ==
    [title |-> folderName,
     filename |-> folderNameToDocxOutfileName(folderName),
     outdir |-> Trim(settings.outputDir),
     author |-> <<>>, surname |-> <<>>, contact |-> <<>>]

(* The merge of the same notes and settings with every author, surname     *)
(* and contact value taken out.                                            *)
MergeWithoutAuthor ==
    obsidianNotesToAST([j \in 1..Len(notesInfo) |-> WithoutAuthorProps(notesInfo[j])],
                       SeedWithoutAuthor)

(* C21: in an anonymous export the renderer gets no author, no surname and *)
(* no contact, and its title, filename, outdir, wordcount and tree are     *)
(* those of the same export with all author, surname and contact values    *)
(* (settings and note properties) taken out; the only setting that can     *)
(* stop an anonymous export is the output directory.                       *)
C21_AnonymousExportHidesAuthor ==
    (anonymize /\ pc \in {"ended", "rendering", "modal", "finished"}) =>
        /\ rendered.called =>
               /\ \A k \in AuthorKeys : ~Has(rendered.metadata, k)
               /\ ~Has(rendered.frontMatter, "author")
               /\ ~Has(rendered.frontMatter, "contactInfo")
               /\ rendered.header.text = rendered.metadata.title \o Slash
               /\ rendered.metadata.title = MergeWithoutAuthor.metadata.title
               /\ rendered.metadata.filename = MergeWithoutAuthor.metadata.filename
               /\ rendered.metadata.outdir =
                      normalizePath(MergeWithoutAuthor.metadata.outdir)
               /\ rendered.metadata.wordcount = MergeWithoutAuthor.metadata.wordcount
               /\ rendered.tree = MergeWithoutAuthor.tree
        /\ (pc = "ended" /\ tree.type # "undefined") =>
               /\ ~ExistsOnDisk(normalizePath(MergeWithoutAuthor.metadata.outdir), disk)
               /\ shown[Len(shown)].about = <<"Output directory">>
        /\ (pc # "ended") => rendered.called

C21_Witness ==
    /\ anonymize
    /\ pc = "rendering"
    /\ rendered.called
    /\ settings.authorName = <<" ">>
    /\ Len(notesInfo) = 2
    /\ Defines(notesInfo[1], "author") /\ Defines(notesInfo[2], "contact")
    /\ \A k \in AuthorKeys : ~Has(rendered.metadata, k)
    /\ rendered.metadata.wordcount = 3

----------------------------------------------------------------------------
(* The export is not valid: the merge returned no tree, or an author,      *)
(* surname or contact is empty in an export that is not anonymous, or the  *)
(* output directory does not exist.                                        *)
NotValid ==
    \/ tree.type = "undefined"
    \/ ~anonymize /\ \E k \in AuthorKeys : metadata[k] = <<>>
    \/ ~ExistsOnDisk(normalizePath(metadata.outdir), disk)

(* C27: an export that is not valid ends after a notice, without a call of *)
(* the renderer and without a file written or overwritten.                 *)
C27_InvalidExportWritesNothing ==
    /\ [][(pc = "done" /\ NotValid) =>
             /\ pc' = "ended"
             /\ Len(shown') > Len(shown)
             /\ shown'[Len(shown')].kind \in {"no markdown", "configure"}
             /\ ~rendered'.called
             /\ writes' = writes /\ disk' = disk /\ modal' = NoModal]_vars
    /\ [](pc = "ended" =>
             /\ ~rendered.called
             /\ writes = <<>>
             /\ ~modal.made
             /\ ~ENABLED NextExport)

C27_Witness ==
    /\ pc = "ended"
    /\ ~anonymize
    /\ tree.type # "undefined"
    /\ metadata.surname = <<>>
    /\ existsSync(metadata.outdir)
    /\ shown[Len(shown)] = Shown("configure", <<"Author surname">>)
    /\ disk # {}
    /\ writes = <<>>

----------------------------------------------------------------------------
(* C28: a manuscript file that exists when saveAsManuscript looks for it   *)
(* is overwritten only after the user has pressed "Overwrite": the modal   *)
(* is opened and nothing written at the check, "Cancel" or closing the     *)
(* modal writes nothing, and a button press closes the modal and runs its  *)
(* callback once.                                                          *)
C28_OverwriteOnlyAfterConfirm ==
    /\ [](/\ \A w \in 1..Len(writes) :
                writes[w].overwrote => modal.yes = 1 /\ ~modal.open
          /\ modal.yes + modal.no <= 1
          /\ modal.closes <= 1
          /\ modal.yes + modal.no <= modal.closes
          /\ Len(writes) <= 1)
    /\ [][(pc = "rendering"
              /\ PathJoin(metadata.outdir, metadata.filename) \in disk) =>
             /\ modal'.open
             /\ writes' = writes /\ disk' = disk]_vars
    /\ [][(modal.open /\ modal' # modal) =>
             /\ ~modal'.open
             /\ modal'.closes = modal.closes + 1
             /\ modal'.yes = modal.yes => (writes' = writes /\ disk' = disk)]_vars

C28_Witness ==
    /\ pc = "finished"
    /\ modal.made /\ ~modal.open
    /\ modal.yes = 1 /\ modal.no = 0 /\ modal.closes = 1
    /\ Len(writes) = 1
    /\ writes[1].overwrote
    /\ writes[1].path = modal.path

====
